---- MODULE Spec2Model ----
(***************************************************************************)
(* Model of css-theme-plugin: the loader-chain rewrite of                  *)
(* CSSThemePlugin.apply (src/lib/index.ts), the content-prepend function   *)
(* built by getLessAddictionData, the theme-block synthesis                *)
(* (getThemeVars / getLessVariables / lessDefaultAddictionData) and the    *)
(* variable extraction parseLessVariables (src/lib/less-vars.ts).          *)
(*                                                                         *)
(* JavaScript strings are modelled as sequences of tokens; a regular       *)
(* expression is modelled by what it matches on such a sequence.           *)
(***************************************************************************)
EXTENDS Integers, Sequences, FiniteSets, TLC

VARIABLES
    rules,      \* compiler.options.module.rules: sequence of rule objects
    heap,       \* the array objects that the rules' use fields reference
    rules0,     \* the rule list as it was handed to the plugin
    heap0,      \* the arrays as they were handed to the plugin
    applied,    \* how many times the environment hook callback has run
    hookErr,    \* outcome of the last run of the callback: "none" or "TypeError"
    darkFile,   \* the dark theme file
    lightFile,  \* the light theme file
    calls       \* the invocations of the wrapped step's additionalData, one
                \* per compiled file: each one's position and local values

vars == <<rules, heap, rules0, heap0, applied, hookErr, darkFile, lightFile, calls>>

rewriteVars == <<rules, heap, rules0, heap0, applied, hookErr>>
compileVars == <<darkFile, lightFile, calls>>

----------------------------------------------------------------------------
(* Bounds of the model.                                                    *)

MaxRules == 2
MaxSteps == 2
MaxApply == 2
MaxNodes == 2
MaxLen == 4
MaxCalls == 2

----------------------------------------------------------------------------
(* Strings as token sequences, and the regular expressions of index.ts.    *)

LessLoaderStr == <<"less-loader">>
LessLoaderQueryStr == <<"less-loader", "?sourceMap">>
CssLoaderStr == <<"css-loader">>
\* path.resolve(__dirname, 'theme-var-loader.cjs')
loaderPath == <<"/plugin/lib/", "theme-var-loader", ".cjs">>
\* require.resolve('less-loader')
ResolvedLessLoader == <<"/node_modules/", "less-loader", "/dist/cjs.js">>

Contains(s, tok) == \E i \in 1..Len(s) : s[i] = tok

\* /less-loader$/
TestLessLoaderEnd(s) == Len(s) > 0 /\ s[Len(s)] = "less-loader"
\* /less-loader/
TestLessLoader(s) == Contains(s, "less-loader")
\* /theme-var-loader/
TestThemeVarLoader(s) == Contains(s, "theme-var-loader")

----------------------------------------------------------------------------
(* Values of the rule list.                                                *)

\* The additionalData option: absent, a string, a user function, or the
\* closure returned by getLessAddictionData (kind "themeFn"), which captures
\* originData (str) or the original function (fn) when isFunc.
ADAbsent == [kind |-> "absent", str |-> <<>>, fn |-> "none"]
ADString(s) == [kind |-> "string", str |-> s, fn |-> "none"]
ADFunction(f) == [kind |-> "function", str |-> <<>>, fn |-> f]

NoOptions == [present |-> FALSE, other |-> "none", ad |-> ADAbsent]
UserOptions(ad) == [present |-> TRUE, other |-> "lessOptions", ad |-> ad]
\* this.options of the plugin, handed to the injected loader
PluginOptions == [present |-> TRUE, other |-> "pluginOptions", ad |-> ADAbsent]

StringStep(s) == [type |-> "string", str |-> s, loader |-> <<>>, options |-> NoOptions]
FunctionStep == [type |-> "function", str |-> <<>>, loader |-> <<>>, options |-> NoOptions]
ObjectStep(l, o) == [type |-> "object", str |-> <<>>, loader |-> l, options |-> o]
UndefinedStep == [type |-> "undefined", str |-> <<>>, loader |-> <<>>, options |-> NoOptions]
\* the outcome of a call that threw a TypeError
ThrownTypeError == [type |-> "TypeError", str |-> <<>>, loader |-> <<>>, options |-> NoOptions]

\* String(x), as RegExp.prototype.test coerces its argument
JsString(x) ==
    CASE x.type = "string" -> x.str
      [] x.type = "object" -> <<"[object Object]">>
      [] x.type = "function" -> <<"function(){}">>
      [] OTHER -> <<"undefined">>

----------------------------------------------------------------------------
(* CSSThemePlugin: wrapping the terminal step.                             *)

\* getLessAddictionData(originData = ''): the closure it returns captures
\* isFunc and originData.  (A captured closure of this plugin is recorded
\* with fn "themeFn"; apply's guard keeps a wrapped step from being wrapped
\* again.)
getLessAddictionData(originData) ==
    [kind |-> "themeFn",
     str |-> IF originData.kind = "string" THEN originData.str ELSE <<>>,
     fn |-> CASE originData.kind = "function" -> originData.fn
              [] originData.kind = "themeFn" -> "themeFn"
              [] OTHER -> "none"]

\* typeof originData === 'function', as captured by the closure
IsFunc(ad) == ad.fn # "none"

\* the user's additionalData dropped
UserAdditionalDataDropped(info) == ADString(<<>>)

\* loadInfo?.options?.additionalData || ''
UserAdditionalData(info) ==
    LET ad == info.options.ad
    IN  IF ad.kind = "absent" \/ (ad.kind = "string" /\ ad.str = <<>>)
        THEN ADString(<<>>)
        ELSE ad

formatLessLoader(info) ==
    IF TestLessLoaderEnd(JsString(info))
    THEN ObjectStep(ResolvedLessLoader,
                    [present |-> TRUE, other |-> "none",
                     ad |-> getLessAddictionData(ADString(<<>>))])
    ELSE IF info.type \in {"string", "function"}
    THEN info
    ELSE IF info.type = "undefined"
    THEN ThrownTypeError      \* loadInfo.loader on undefined
    ELSE ObjectStep(info.loader,
                    [present |-> TRUE, other |-> info.options.other,
                     ad |-> getLessAddictionData(UserAdditionalData(info))])

----------------------------------------------------------------------------
(* CSSThemePlugin.apply: the environment hook callback.                    *)

\* { loader: loaderPath, options: this.options }
loader == ObjectStep(loaderPath, PluginOptions)

StringUse(s) == [type |-> "string", str |-> s, ref |-> 0]
ArrayUse(r) == [type |-> "array", str |-> <<>>, ref |-> r]
ObjectUse == [type |-> "object", str |-> <<>>, ref |-> 0]

\* the filter without the match against 'index.less'
IsLessRuleAnyRegExp(rule) == rule.test.isRegExp

\* the filter that selects lessRules
IsLessRule(rule) == rule.test.isRegExp /\ rule.test.matchesIndexLess

\* the scan with the pattern anchored at the end: loaderPath ends in ".cjs"
HasInjectedAnchored(arr) ==
    \E i \in 1..Len(arr) :
        /\ arr[i].type # "string"
        /\ arr[i].type # "function"
        /\ arr[i].loader # <<>>
        /\ arr[i].loader[Len(arr[i].loader)] = "theme-var-loader"

\* the some(...) scan for the injected step
HasInjected(arr) ==
    \E i \in 1..Len(arr) :
        /\ arr[i].type # "string"
        /\ arr[i].type # "function"
        /\ TestThemeVarLoader(arr[i].loader)

\* one iteration of lessRules.forEach on the rule at position i;
\* st = [rules, heap, err]
RewriteRule(st, i) ==
    LET ruleItem == st.rules[i]
        use == ruleItem.use
    IN  IF use.type = "string" /\ TestLessLoader(use.str)
        THEN [st EXCEPT
                !.heap = Append(st.heap, <<loader, formatLessLoader(StringStep(use.str))>>),
                !.rules[i].use = ArrayUse(Len(st.heap) + 1)]
        ELSE IF use.type # "array"
        THEN st
        ELSE LET arr == st.heap[use.ref]
                 lessLoaderIndex == Len(arr) - 1
                 last == IF Len(arr) = 0 THEN UndefinedStep ELSE arr[Len(arr)]
                 wrapped == formatLessLoader(last)
             IN  IF HasInjected(arr)
                 THEN st
                 ELSE IF wrapped.type = "TypeError"
                 THEN [st EXCEPT !.err = "TypeError"]
                 ELSE IF Len(arr) = 0
                 THEN [st EXCEPT !.heap[use.ref] = <<loader>>]
                 ELSE [st EXCEPT !.heap[use.ref] =
                         SubSeq(arr, 1, lessLoaderIndex) \o <<loader, wrapped>>]

RECURSIVE ForEachRule(_, _)
ForEachRule(st, i) ==
    IF i > Len(st.rules) \/ st.err # "none"
    THEN st
    ELSE ForEachRule(IF IsLessRule(st.rules[i]) THEN RewriteRule(st, i) ELSE st, i + 1)

EnvironmentHook(rs, hp) == ForEachRule([rules |-> rs, heap |-> hp, err |-> "none"], 1)

----------------------------------------------------------------------------
(* The rule lists handed to the plugin.                                    *)

RegExpMatching == [isRegExp |-> TRUE, matchesIndexLess |-> TRUE]     \* /\.less$/
RegExpOther == [isRegExp |-> TRUE, matchesIndexLess |-> FALSE]       \* /\.module\.less$/
NotRegExp == [isRegExp |-> FALSE, matchesIndexLess |-> FALSE]        \* a string or a function

Tests == {RegExpMatching, RegExpOther, NotRegExp}

InputSteps ==
    { StringStep(LessLoaderStr),
      StringStep(LessLoaderQueryStr),
      FunctionStep,
      ObjectStep(LessLoaderStr, UserOptions(ADString(<<"x">>))),
      loader }

ArraysOfLen(n) == [1..n -> InputSteps]

\* heaps of exactly n arrays holding at most k steps together
RECURSIVE HeapsOf(_, _)
HeapsOf(n, k) ==
    IF n = 0
    THEN {<<>>}
    ELSE UNION { { <<a>> \o h : a \in ArraysOfLen(m), h \in HeapsOf(n - 1, k - m) }
                 : m \in 0..k }

NonArrayUses ==
    { StringUse(LessLoaderStr), StringUse(LessLoaderQueryStr),
      StringUse(CssLoaderStr), ObjectUse }

UsesOver(n) == NonArrayUses \cup { ArrayUse(r) : r \in 1..n }

Refs(rs) == { rs[i].use.ref : i \in { j \in 1..Len(rs) : rs[j].use.type = "array" } }

FirstUse(rs, r) == CHOOSE i \in 1..Len(rs) :
                      /\ rs[i].use = ArrayUse(r)
                      /\ \A j \in 1..(i - 1) : rs[j].use # ArrayUse(r)

\* every array is the use of some rule (two rules may share one array), and
\* arrays are numbered in the order the rule list first mentions them
RuleListsOver(n) ==
    { rs \in UNION { [1..len -> [test : Tests, use : UsesOver(n)]] : len \in 1..MaxRules } :
        /\ Refs(rs) = 1..n
        /\ \A r \in 1..(n - 1) : FirstUse(rs, r) < FirstUse(rs, r + 1) }

\* no compile in play
IdleCompile ==
    /\ darkFile = [exists |-> TRUE, valid |-> TRUE, rules |-> <<>>]
    /\ lightFile = [exists |-> TRUE, valid |-> TRUE, rules |-> <<>>]
    /\ calls = <<>>

\* no rule list in play
IdleRewrite ==
    /\ rules = <<>> /\ heap = <<>> /\ rules0 = <<>> /\ heap0 = <<>>
    /\ applied = 0 /\ hookErr = "none"

Heaps == [n \in 0..MaxRules |-> HeapsOf(n, MaxSteps)]

RuleLists == [n \in 0..MaxRules |-> RuleListsOver(n)]

InitRewrite ==
    /\ \E n \in 0..MaxRules :
         /\ heap0 \in Heaps[n]
         /\ rules0 \in RuleLists[n]
    /\ rules = rules0
    /\ heap = heap0
    /\ applied = 0
    /\ hookErr = "none"
    /\ IdleCompile

\* the build framework runs the callback tapped on hooks.environment
ApplyHook ==
    /\ applied < MaxApply
    /\ LET st == EnvironmentHook(rules, heap)
       IN  /\ rules' = st.rules
           /\ heap' = st.heap
           /\ hookErr' = st.err
    /\ applied' = applied + 1
    /\ UNCHANGED <<rules0, heap0>>

----------------------------------------------------------------------------
(* less-vars.ts: parseLessVariables.                                       *)

\* A theme file: whether readFileSync finds it, whether less.parse accepts
\* it, and the top-level nodes (all.rules) of its tree.
File(e, v, rs) == [exists |-> e, valid |-> v, rules |-> rs]

\* Top-level nodes of a Less tree.  A Declaration has a name ("@a") and a
\* value node; a Ruleset has neither; a MixinDefinition has a name (".m")
\* and no value.
Declaration(n, v) == [type |-> "Declaration", hasName |-> TRUE, name |-> <<"@", n>>,
                      hasValue |-> TRUE, value |-> v]
Ruleset == [type |-> "Ruleset", hasName |-> FALSE, name |-> <<>>,
            hasValue |-> FALSE, value |-> <<>>]
MixinDefinition == [type |-> "MixinDefinition", hasName |-> TRUE, name |-> <<".", "m">>,
                    hasValue |-> FALSE, value |-> <<>>]

\* rule.value.toCSS(): a Value node renders its expressions joined by ", "
RECURSIVE toCSS(_)
toCSS(value) ==
    IF Len(value) <= 1
    THEN value
    ELSE <<value[1], ", ">> \o toCSS(Tail(value))

\* name.slice(1)
Slice1(name) == IF name = <<>> THEN <<>> ELSE Tail(name)

\* A JavaScript object is the sequence of its [key, value] properties in
\* property order: array-index keys ascending first, then the other keys in
\* insertion order.
IndexOf(key) ==
    CASE key = <<"1">> -> 1
      [] key = <<"2">> -> 2
      [] OTHER -> -1

IsIndexKey(key) == IndexOf(key) >= 0

Keys(obj) == [i \in 1..Len(obj) |-> obj[i].key]

HasKey(obj, k) == \E i \in 1..Len(obj) : obj[i].key = k

\* obj[k] = v
ObjSet(obj, k, v) ==
    IF HasKey(obj, k)
    THEN [i \in 1..Len(obj) |-> IF obj[i].key = k THEN [key |-> k, value |-> v] ELSE obj[i]]
    ELSE IF IsIndexKey(k)
    THEN LET before == SelectSeq(obj, LAMBDA p : IsIndexKey(p.key) /\ IndexOf(p.key) < IndexOf(k))
             after == SelectSeq(obj, LAMBDA p : ~(IsIndexKey(p.key) /\ IndexOf(p.key) < IndexOf(k)))
         IN  before \o <<[key |-> k, value |-> v]>> \o after
    ELSE Append(obj, [key |-> k, value |-> v])

Fulfilled(v) == [state |-> "fulfilled", value |-> v, error |-> "none"]
Rejected(e) == [state |-> "rejected", value |-> <<>>, error |-> e]
Pending == [state |-> "pending", value |-> <<>>, error |-> "none"]

\* rules?.forEach(rule => variables[rule.name.slice(1)] = rule.value.toCSS())
RECURSIVE ForEachNode(_, _)
ForEachNode(nodes, variablesObj) ==
    IF nodes = <<>>
    THEN Fulfilled(variablesObj)
    ELSE LET rule == Head(nodes)
         IN  IF ~rule.hasName \/ ~rule.hasValue
             THEN Rejected("TypeError")
             ELSE ForEachNode(Tail(nodes),
                              ObjSet(variablesObj, Slice1(rule.name), toCSS(rule.value)))

\* the part of parseLessVariables up to its await: fs.readFileSync
ReadFile(file) == IF file.exists THEN Pending ELSE Rejected("FileReadError")

\* the part of parseLessVariables after less.parse has settled
AfterParse(file) == IF file.valid THEN ForEachNode(file.rules, <<>>) ELSE Rejected("ParseError")

parseLessVariables(file) ==
    IF ReadFile(file).state = "rejected" THEN ReadFile(file) ELSE AfterParse(file)

----------------------------------------------------------------------------
(* Theme-block synthesis.                                                  *)

\* defaultOptions.themeClassPre
themeClassPre == "antd-theme"

\* { ...target, ...source }
RECURSIVE Spread(_, _)
Spread(target, source) ==
    IF source = <<>>
    THEN target
    ELSE Spread(ObjSet(target, Head(source).key, Head(source).value), Tail(source))

\* the spread written the other way round: { ...dark, ...light }
MergedKeysDarkFirst(light, dark) == Keys(Spread(Spread(<<>>, dark), light))

MergedKeys(light, dark) == Keys(Spread(Spread(<<>>, light), dark))

\* Object.keys({ ...light, ...dark }).map(key => [key, `~'var(--${themeClassPre}-${key})'`])
getLessVariables(light, dark) ==
    LET ks == MergedKeys(light, dark)
    IN  [i \in 1..Len(ks) |->
            [key |-> ks[i],
             value |-> <<"~'var(--", themeClassPre, "-">> \o ks[i] \o <<")'">>]]

\* variables.reduce((pre, [key, value]) => `${pre}@${key}:${value};`, '')
RECURSIVE Reduce(_, _)
Reduce(pre, vs) ==
    IF vs = <<>>
    THEN pre
    ELSE Reduce(pre \o <<"@">> \o Head(vs).key \o <<":">> \o Head(vs).value \o <<";">>,
                Tail(vs))

lessDefaultAddictionData(vs) == Reduce(<<>>, vs)

----------------------------------------------------------------------------
(* The content-prepend function returned by getLessAddictionData.          *)

IsSpace(t) == t \in {" ", "\n"}

RECURSIVE TrimStart(_)
TrimStart(s) == IF s # <<>> /\ IsSpace(Head(s)) THEN TrimStart(Tail(s)) ELSE s

RECURSIVE TrimEnd(_)
TrimEnd(s) ==
    IF s # <<>> /\ IsSpace(s[Len(s)]) THEN TrimEnd(SubSeq(s, 1, Len(s) - 1)) ELSE s

Trim(s) == TrimEnd(TrimStart(s))

\* /^@import/
TestStartsWithImport(s) == s # <<>> /\ Head(s) = "@import"

\* the last position of the line that position p is on ("." stops at "\n")
LineEnd(s, p) ==
    LET nls == { j \in p..Len(s) : s[j] = "\n" }
    IN  IF nls = {} THEN Len(s) ELSE (CHOOSE j \in nls : \A k \in nls : j <= k) - 1

\* where /@import.*;/ matches when tried at p: the greedy ".*" runs to the
\* end of the line and backs off to the last ";" (0: no match at p)
MatchEnd(s, p) ==
    LET semis == { j \in (p + 1)..LineEnd(s, p) : s[j] = ";" }
    IN  IF s[p] # "@import" \/ semis = {}
        THEN 0
        ELSE CHOOSE j \in semis : \A k \in semis : k <= j

\* newContent.replace(/(@import.*;)/g, `$1${vars}`), scanning from i
RECURSIVE ReplaceFrom(_, _, _)
ReplaceFrom(s, i, blk) ==
    IF i > Len(s)
    THEN <<>>
    ELSE LET e == MatchEnd(s, i)
         IN  IF e = 0
             THEN <<s[i]>> \o ReplaceFrom(s, i + 1, blk)
             ELSE SubSeq(s, i, e) \o blk \o ReplaceFrom(s, e + 1, blk)

ReplaceImports(s, blk) == ReplaceFrom(s, 1, blk)

\* the user's own additionalData functions
CallOrigin(fn, cont) ==
    CASE fn = "banner" -> <<"x", "\n">> \o cont
      [] fn = "importFirst" -> <<"@import", ";">> \o cont
      [] OTHER -> cont

\* isFunc ? await originData(content, context) : `${originData}${content}`
NewContent(ad, cont) == IF IsFunc(ad) THEN CallOrigin(ad.fn, cont) ELSE ad.str \o cont

\* the body of the closure after vars has been awaited
PrependThemeBlock(ad, cont, blk) ==
    LET newContent == NewContent(ad, cont)
    IN  IF TestStartsWithImport(Trim(newContent))
        THEN ReplaceImports(newContent, blk)
        ELSE blk \o newContent

----------------------------------------------------------------------------
(* One invocation of the wrapped step's additionalData (one compiled file) *)
(* as a process: pc is the await it is suspended at.                       *)

\* Promise.allSettled in its place, a failed extraction read as no variables
PromiseAllSettled(all, p1, p2) ==
    IF all.state # "pending" THEN all
    ELSE IF p1.state # "pending" /\ p2.state # "pending"
    THEN Fulfilled(<<p1.value, p2.value>>)
    ELSE Pending

\* Promise.race in its place, the extraction still running read as no variables
PromiseRace(all, p1, p2) ==
    IF all.state # "pending" THEN all
    ELSE IF p1.state = "rejected" THEN Rejected(p1.error)
    ELSE IF p2.state = "rejected" THEN Rejected(p2.error)
    ELSE IF p1.state = "fulfilled" \/ p2.state = "fulfilled"
    THEN Fulfilled(<<p1.value, p2.value>>)
    ELSE Pending

\* Promise.all([p1, p2]) given its own state so far and the inputs' states:
\* it rejects with the first rejection it sees and fulfils once both inputs
\* have fulfilled
PromiseAll(all, p1, p2) ==
    IF all.state # "pending" THEN all
    ELSE IF p1.state = "rejected" THEN Rejected(p1.error)
    ELSE IF p2.state = "rejected" THEN Rejected(p2.error)
    ELSE IF p1.state = "fulfilled" /\ p2.state = "fulfilled"
    THEN Fulfilled(<<p1.value, p2.value>>)
    ELSE Pending

NewCall(info, cont) ==
    [pc |-> "idle",
     loadInfo |-> info,
     ad |-> formatLessLoader(info).options.ad,
     content |-> cont,
     dark |-> Pending,
     light |-> Pending,
     all |-> Pending,
     first |-> "none",       \* which less.parse settled first (for the record)
     themeVars |-> [light |-> <<>>, dark |-> <<>>],
     variables |-> <<>>,
     vars |-> <<>>,
     result |-> Pending]

\* less-loader calls additionalData(content, context): the closure runs
\* lessDefaultAddictionData -> getLessVariables -> getThemeVars, which calls
\* lessToJS for dark and then for light (each reads its file synchronously)
\* and awaits Promise.all
Invoke(c) ==
    /\ calls[c].pc = "idle"
    /\ LET d == ReadFile(darkFile)
           l == ReadFile(lightFile)
       IN  calls' = [calls EXCEPT ![c].pc = "getThemeVars",
                                  ![c].dark = d,
                                  ![c].light = l,
                                  ![c].all = PromiseAll(Pending, d, l)]
    /\ UNCHANGED <<darkFile, lightFile>>

\* less.parse of the dark file settles and parseLessVariables finishes
ParseDarkSettles(c) ==
    /\ calls[c].pc # "idle"
    /\ calls[c].dark.state = "pending"
    /\ LET d == AfterParse(darkFile)
       IN  calls' = [calls EXCEPT ![c].dark = d,
                                  ![c].first = IF @ = "none" THEN "dark" ELSE @,
                                  ![c].all = PromiseAll(calls[c].all, d, calls[c].light)]
    /\ UNCHANGED <<darkFile, lightFile>>

\* less.parse of the light file settles and parseLessVariables finishes
ParseLightSettles(c) ==
    /\ calls[c].pc # "idle"
    /\ calls[c].light.state = "pending"
    /\ LET l == AfterParse(lightFile)
       IN  calls' = [calls EXCEPT ![c].light = l,
                                  ![c].first = IF @ = "none" THEN "light" ELSE @,
                                  ![c].all = PromiseAll(calls[c].all, calls[c].dark, l)]
    /\ UNCHANGED <<darkFile, lightFile>>

\* const [dark, light] = await Promise.all(...); return { light, dark }
GetThemeVarsReturns(c) ==
    /\ calls[c].pc = "getThemeVars"
    /\ calls[c].all.state = "fulfilled"
    /\ calls' = [calls EXCEPT ![c].pc = "getLessVariables",
                              ![c].themeVars = [dark |-> calls[c].all.value[1],
                                                light |-> calls[c].all.value[2]]]
    /\ UNCHANGED <<darkFile, lightFile>>

\* Promise.all rejected: every await up to the closure's rethrows
Rejects(c) ==
    /\ calls[c].pc = "getThemeVars"
    /\ calls[c].all.state = "rejected"
    /\ calls' = [calls EXCEPT ![c].pc = "done",
                              ![c].result = Rejected(calls[c].all.error)]
    /\ UNCHANGED <<darkFile, lightFile>>

GetLessVariablesReturns(c) ==
    /\ calls[c].pc = "getLessVariables"
    /\ calls' = [calls EXCEPT ![c].pc = "lessDefaultAddictionData",
                              ![c].variables = getLessVariables(calls[c].themeVars.light,
                                                                calls[c].themeVars.dark)]
    /\ UNCHANGED <<darkFile, lightFile>>

LessDefaultAddictionDataReturns(c) ==
    /\ calls[c].pc = "lessDefaultAddictionData"
    /\ calls' = [calls EXCEPT ![c].pc = "closure",
                              ![c].vars = lessDefaultAddictionData(calls[c].variables)]
    /\ UNCHANGED <<darkFile, lightFile>>

\* the closure, resumed with vars, builds newContent and returns
Returns(c) ==
    /\ calls[c].pc = "closure"
    /\ calls' = [calls EXCEPT ![c].pc = "done",
                              ![c].result = Fulfilled(PrependThemeBlock(calls[c].ad,
                                                                        calls[c].content,
                                                                        calls[c].vars))]
    /\ UNCHANGED <<darkFile, lightFile>>

----------------------------------------------------------------------------
(* Inputs.                                                                 *)

DeclarationNodes ==
    { Declaration("a", <<"red">>), Declaration("a", <<"blue", "green">>),
      Declaration("b", <<"red">>), Declaration("1", <<"red">>) }

Nodes == DeclarationNodes \cup {Ruleset, MixinDefinition}

NodeLists == UNION { [1..n -> Nodes] : n \in 0..MaxNodes }

Files ==
    { File(TRUE, TRUE, rs) : rs \in NodeLists }
        \cup { File(FALSE, FALSE, <<>>), File(TRUE, FALSE, <<>>) }

Alphabet == {"@import", ";", "\n", " ", "x"}

Contents == UNION { [1..n -> Alphabet] : n \in 0..MaxLen }

LoadInfos ==
    { StringStep(LessLoaderStr),
      ObjectStep(LessLoaderStr, NoOptions),
      ObjectStep(LessLoaderStr, UserOptions(ADAbsent)),
      ObjectStep(LessLoaderStr, UserOptions(ADString(<<>>))),
      ObjectStep(LessLoaderStr, UserOptions(ADString(<<"x", ";">>))),
      ObjectStep(LessLoaderStr, UserOptions(ADString(<<"@import", ";">>))),
      ObjectStep(LessLoaderStr, UserOptions(ADFunction("banner"))),
      ObjectStep(LessLoaderStr, UserOptions(ADFunction("importFirst"))) }

\* one compile over every pair of theme files
InitThemeVars ==
    /\ IdleRewrite
    /\ darkFile \in Files
    /\ lightFile \in Files
    /\ calls = <<NewCall(StringStep(LessLoaderStr), <<"x">>)>>

\* one compile over every content and every additionalData the user may
\* have configured
InitPrepend ==
    /\ IdleRewrite
    /\ darkFile \in { File(TRUE, TRUE, <<>>), File(TRUE, TRUE, <<Declaration("a", <<"red">>)>>) }
    /\ lightFile \in { File(TRUE, TRUE, <<>>), File(TRUE, TRUE, <<Declaration("b", <<"red">>)>>) }
    /\ \E info \in LoadInfos, cont \in Contents : calls = <<NewCall(info, cont)>>

ConcurrentFiles ==
    { File(TRUE, TRUE, <<>>),
      File(TRUE, TRUE, <<Declaration("a", <<"red">>)>>),
      File(TRUE, TRUE, <<Declaration("b", <<"red">>), Declaration("a", <<"red">>)>>),
      File(TRUE, TRUE, <<Declaration("a", <<"red">>), Ruleset>>),
      File(FALSE, FALSE, <<>>),
      File(TRUE, FALSE, <<>>) }

ConcurrentContents == { <<"x">>, <<"@import", ";", "x">> }

\* several files compiled at once against every pair of theme files
InitConcurrent ==
    /\ IdleRewrite
    /\ darkFile \in ConcurrentFiles
    /\ lightFile \in ConcurrentFiles
    /\ calls \in [1..MaxCalls ->
                    { NewCall(ObjectStep(LessLoaderStr, UserOptions(ADString(<<"x", ";">>))), cont)
                        : cont \in ConcurrentContents }]

----------------------------------------------------------------------------
(* Specifications.                                                         *)

NextRewrite == ApplyHook /\ UNCHANGED compileVars

NextCompile ==
    /\ \E c \in DOMAIN calls :
         \/ Invoke(c)
         \/ ParseDarkSettles(c)
         \/ ParseLightSettles(c)
         \/ GetThemeVarsReturns(c)
         \/ Rejects(c)
         \/ GetLessVariablesReturns(c)
         \/ LessDefaultAddictionDataReturns(c)
         \/ Returns(c)
    /\ UNCHANGED rewriteVars

\* the loader-chain rewrite
Spec == InitRewrite /\ [][NextRewrite]_vars

\* extraction and theme-block synthesis
SpecThemeVars == InitThemeVars /\ [][NextCompile]_vars

\* the content-prepend function
SpecPrepend == InitPrepend /\ [][NextCompile]_vars

\* concurrent compiles
SpecConcurrent == InitConcurrent /\ [][NextCompile]_vars

----------------------------------------------------------------------------
(* Claims about the loader-chain rewrite (specification Spec).             *)

\* what a rule is to the build: its test and its use with the array's steps
RuleView(rs, hp, i) ==
    [test |-> rs[i].test,
     type |-> rs[i].use.type,
     str |-> rs[i].use.str,
     steps |-> IF rs[i].use.type = "array" THEN hp[rs[i].use.ref] ELSE <<>>]

\* the rule's matcher is a pattern-matching object that matches index.less
Qualifies(rule) == rule.test = RegExpMatching

SameShape == Len(rules) = Len(rules0) /\ \A i \in 1..Len(rules0) : rules[i].test = rules0[i].test

\* C1: once the callback has run, running it again changes no rule and no
\* array of steps (nothing added, nothing wrapped a second time), and it
\* ends the same way.
C1_Idempotent ==
    [][applied >= 1 => (rules' = rules /\ heap' = heap /\ hookErr' = hookErr)]_vars

\* the callback ran twice on a list in which it rewrote a string use and an array use
C1_Witness ==
    /\ applied = 2
    /\ \E i \in 1..Len(rules0) : rules0[i].use.type = "string" /\ rules[i].use.type = "array"
    /\ \E r \in 1..Len(heap0) : heap[r] # heap0[r]

\* C7 as claimed: a qualifying rule whose use holds n >= 1 steps, none of
\* them the injected step, ends with the first n-1 steps, the injected step
\* and the wrapped last step; and an empty sequence raises no error.
C7_Claimed ==
    applied >= 1 =>
        \A i \in 1..Len(rules0) :
            (Qualifies(rules0[i]) /\ rules0[i].use.type = "array") =>
                LET arr0 == heap0[rules0[i].use.ref]
                    n == Len(arr0)
                IN  /\ (n >= 1 /\ ~HasInjected(arr0)) =>
                          /\ rules[i].use = rules0[i].use
                          /\ heap[rules[i].use.ref] =
                                SubSeq(arr0, 1, n - 1) \o <<loader, formatLessLoader(arr0[n])>>
                    /\ n = 0 => hookErr = "none"

\* C8 as claimed: every qualifying rule that received the injected step
\* ends in a step whose additionalData is the content-prepend function.
ReceivedInjected(i) ==
    /\ rules[i].use.type = "array"
    /\ \E k \in 1..Len(heap[rules[i].use.ref]) : heap[rules[i].use.ref][k] = loader
    /\ ~(rules0[i].use.type = "array" /\ HasInjected(heap0[rules0[i].use.ref]))

C8_Claimed ==
    applied >= 1 =>
        \A i \in 1..Len(rules0) :
            (Qualifies(rules0[i]) /\ ReceivedInjected(i)) =>
                LET arr == heap[rules[i].use.ref]
                IN  arr[Len(arr)].options.ad.kind = "themeFn"

\* C9 as claimed: every rule that does not qualify, and every qualifying
\* rule whose use is neither a string naming the compiler step nor a
\* sequence, is left as it was; the list keeps its length and order.
Untouchable(i) ==
    \/ ~Qualifies(rules0[i])
    \/ /\ rules0[i].use.type # "array"
       /\ ~(rules0[i].use.type = "string" /\ TestLessLoader(rules0[i].use.str))

C9_Claimed ==
    /\ SameShape
    /\ \A i \in 1..Len(rules0) :
          Untouchable(i) => RuleView(rules, heap, i) = RuleView(rules0, heap0, i)

\* a rule whose use is the very array object of a qualifying rule
SharesWithLessRule(i) ==
    /\ rules0[i].use.type = "array"
    /\ \E j \in 1..Len(rules0) : Qualifies(rules0[j]) /\ rules0[j].use = rules0[i].use

\* C9 amended: such a rule keeps its test and its use (the same string,
\* object or array reference), and the steps of its array are unchanged
\* unless that array object is also the use of a qualifying rule (the
\* rewrite mutates the array in place).
C9_Frame ==
    /\ SameShape
    /\ \A i \in 1..Len(rules0) :
          Untouchable(i) =>
              /\ rules[i] = rules0[i]
              /\ ~SharesWithLessRule(i) =>
                    RuleView(rules, heap, i) = RuleView(rules0, heap0, i)

\* the callback rewrote a qualifying rule and left alone a non-qualifying
\* rule that has its own array ending in the compiler step
C9_Witness ==
    /\ applied >= 1
    /\ Len(rules0) = 2
    /\ \E i, j \in 1..2 :
          /\ ~Qualifies(rules0[i])
          /\ rules0[i].use.type = "array"
          /\ ~SharesWithLessRule(i)
          /\ heap0[rules0[i].use.ref] = <<StringStep(LessLoaderStr)>>
          /\ Qualifies(rules0[j])
          /\ RuleView(rules, heap, j) # RuleView(rules0, heap0, j)

----------------------------------------------------------------------------
(* Claims about extraction and synthesis (specification SpecThemeVars).    *)

DeclarationsOf(file) == SelectSeq(file.rules, LAMBDA n : n.type = "Declaration")

\* the value the map is to hold for key k: that of the last declaration of k
LastValue(file, k) ==
    LET ds == DeclarationsOf(file)
        last == CHOOSE i \in 1..Len(ds) :
                    /\ Slice1(ds[i].name) = k
                    /\ \A j \in (i + 1)..Len(ds) : Slice1(ds[j].name) # k
    IN  toCSS(ds[last].value)

ExactMap(p, file) ==
    LET ds == DeclarationsOf(file)
    IN  /\ p.state = "fulfilled"
        /\ { p.value[i].key : i \in 1..Len(p.value) } = { Slice1(ds[i].name) : i \in 1..Len(ds) }
        /\ \A i, j \in 1..Len(p.value) : p.value[i].key = p.value[j].key => i = j
        /\ \A i \in 1..Len(p.value) : p.value[i].value = LastValue(file, p.value[i].key)

\* C5 as claimed: for every parsed file, the extraction returns exactly the
\* map from each top-level declaration's name without its sigil to its
\* rendered value; other top-level nodes add no key and raise no error.
C5_Claimed ==
    \A c \in DOMAIN calls :
        /\ (darkFile.exists /\ darkFile.valid /\ calls[c].pc # "idle"
                /\ calls[c].dark.state # "pending") => ExactMap(calls[c].dark, darkFile)
        /\ (lightFile.exists /\ lightFile.valid /\ calls[c].pc # "idle"
                /\ calls[c].light.state # "pending") => ExactMap(calls[c].light, lightFile)

\* @name:~'var(--{prefix}-{name})';
DeclarationText(k) == <<"@">> \o k \o <<":", "~'var(--", "antd-theme", "-">> \o k \o <<")'", ";">>

RECURSIVE ConcatDeclarations(_)
ConcatDeclarations(ks) ==
    IF ks = <<>> THEN <<>> ELSE DeclarationText(Head(ks)) \o ConcatDeclarations(Tail(ks))

Member(ks, k) == \E i \in 1..Len(ks) : ks[i] = k

RECURSIVE Ascending(_)
Ascending(S) ==
    IF S = {}
    THEN <<>>
    ELSE LET m == CHOOSE k \in S : \A o \in S : IndexOf(k) <= IndexOf(o)
         IN  <<m>> \o Ascending(S \ {m})

Synthesized(c) == calls[c].pc = "closure" \/ (calls[c].pc = "done" /\ calls[c].result.state = "fulfilled")

\* C4 as claimed: the block is one declaration per name of the union, the
\* dark keys first and then the light keys not already seen.
C4_Claimed ==
    \A c \in DOMAIN calls :
        Synthesized(c) =>
            LET dk == Keys(calls[c].themeVars.dark)
                lk == Keys(calls[c].themeVars.light)
            IN  calls[c].vars = ConcatDeclarations(dk \o SelectSeq(lk, LAMBDA k : ~Member(dk, k)))

\* C4 amended: the block is the concatenation, without separators, of
\* exactly one declaration per name of the union of the two key sets; names
\* that are array indices ("1") come first in ascending order, then the
\* light keys in their order, then the dark keys not already seen; it is
\* empty when both maps are empty.
C4_LightFirst ==
    \A c \in DOMAIN calls :
        Synthesized(c) =>
            LET dk == Keys(calls[c].themeVars.dark)
                lk == Keys(calls[c].themeVars.light)
                all == { dk[i] : i \in 1..Len(dk) } \cup { lk[i] : i \in 1..Len(lk) }
                named(ks) == SelectSeq(ks, LAMBDA k : ~IsIndexKey(k))
                order == Ascending({ k \in all : IsIndexKey(k) })
                            \o named(lk) \o SelectSeq(named(dk), LAMBDA k : ~Member(lk, k))
            IN  /\ calls[c].vars = ConcatDeclarations(order)
                /\ { order[i] : i \in 1..Len(order) } = all
                /\ Len(order) = Cardinality(all)
                /\ (dk = <<>> /\ lk = <<>>) => calls[c].vars = <<>>

\* a block synthesized from a light map {a} and a dark map {1, b}
C4_Witness ==
    \E c \in DOMAIN calls :
        /\ Synthesized(c)
        /\ Keys(calls[c].themeVars.light) = << <<"a">> >>
        /\ Keys(calls[c].themeVars.dark) = << <<"1">>, <<"b">> >>
        /\ calls[c].vars = DeclarationText(<<"1">>) \o DeclarationText(<<"a">>)
                              \o DeclarationText(<<"b">>)

----------------------------------------------------------------------------
(* Claims about the content-prepend function (specification SpecPrepend).  *)

\* the combined content: the user's own prepend applied to the file content
Combined(c) ==
    LET own == calls[c].loadInfo.options.ad
    IN  CASE own.kind = "string" -> own.str \o calls[c].content
          [] own.kind = "function" -> CallOrigin(own.fn, calls[c].content)
          [] OTHER -> calls[c].content

Returned(c) == calls[c].pc = "done" /\ calls[c].result.state = "fulfilled"

\* an import directive ends at its first ";" on the line
DirectiveEnd(s, p) ==
    LET semis == { j \in (p + 1)..LineEnd(s, p) : s[j] = ";" }
    IN  IF s[p] # "@import" \/ semis = {}
        THEN 0
        ELSE CHOOSE j \in semis : \A k \in semis : j <= k

\* s from position i on, with blk after each import directive
RECURSIVE AfterEachDirective(_, _, _)
AfterEachDirective(s, i, blk) ==
    IF i > Len(s)
    THEN <<>>
    ELSE LET e == DirectiveEnd(s, i)
         IN  IF e = 0
             THEN <<s[i]>> \o AfterEachDirective(s, i + 1, blk)
             ELSE SubSeq(s, i, e) \o blk \o AfterEachDirective(s, e + 1, blk)

\* C2 as claimed: when the combined content, trimmed, begins with @import,
\* the result is that content with the override block inserted immediately
\* after each import directive, one block per directive also when several
\* directives share a line.
C2_Claimed ==
    \A c \in DOMAIN calls :
        (Returned(c) /\ TestStartsWithImport(Trim(Combined(c)))) =>
            calls[c].result.value = AfterEachDirective(Combined(c), 1, calls[c].vars)

\* C3: when the combined content does not begin with @import after
\* trimming, the result is exactly the override block followed by the
\* combined content (the user's string, or nothing, before the file content;
\* or what the user's function returned).
C3_BlockThenCombined ==
    \A c \in DOMAIN calls :
        (Returned(c) /\ ~TestStartsWithImport(Trim(Combined(c)))) =>
            calls[c].result.value = calls[c].vars \o Combined(c)

\* a call returned for a user function and leading white space, block not empty
C3_Witness ==
    \E c \in DOMAIN calls :
        /\ Returned(c)
        /\ calls[c].loadInfo.options.ad = ADFunction("banner")
        /\ calls[c].content = <<" ", "@import", ";", "x">>
        /\ calls[c].vars # <<>>
        /\ calls[c].result.value = calls[c].vars \o <<"x", "\n", " ", "@import", ";", "x">>

----------------------------------------------------------------------------
(* Claims about failure and concurrency (specification SpecConcurrent).    *)

\* how the extraction of a file ends
ErrorOf(file) ==
    IF ~file.exists THEN "FileReadError"
    ELSE IF ~file.valid THEN "ParseError"
    ELSE IF \E i \in 1..Len(file.rules) : file.rules[i].type # "Declaration" THEN "TypeError"
    ELSE "none"

\* C6: if the extraction of either variant fails, the synthesis never
\* yields a block and the content-prepend call never returns content; when
\* it ends, it ends with the error of a failed extraction.
C6_NoPartialSuccess ==
    (ErrorOf(darkFile) # "none" \/ ErrorOf(lightFile) # "none") =>
        \A c \in DOMAIN calls :
            /\ calls[c].pc \in {"idle", "getThemeVars", "done"}
            /\ calls[c].result.state # "fulfilled"
            /\ calls[c].pc = "done" =>
                  /\ calls[c].result.state = "rejected"
                  /\ calls[c].result.error \in ({ErrorOf(darkFile), ErrorOf(lightFile)} \ {"none"})

\* a call failed although the dark variant was extracted
C6_Witness ==
    \E c \in DOMAIN calls :
        /\ calls[c].pc = "done"
        /\ calls[c].dark.state = "fulfilled"
        /\ calls[c].dark.value # <<>>
        /\ calls[c].light.state = "rejected"
        /\ calls[c].result = Rejected("ParseError")

\* the block of the two files extracted one after the other
SequentialBlock ==
    lessDefaultAddictionData(getLessVariables(parseLessVariables(lightFile).value,
                                              parseLessVariables(darkFile).value))

\* C10: the block is assembled only after both extractions have completed;
\* whatever the interleaving and the order of completion, it is the block of
\* the two files, and each call's result is that of its own content alone.
C10_OrderIndependent ==
    \A c \in DOMAIN calls :
        /\ calls[c].pc \in {"getLessVariables", "lessDefaultAddictionData", "closure"}
              => (calls[c].dark.state = "fulfilled" /\ calls[c].light.state = "fulfilled")
        /\ Synthesized(c) => calls[c].vars = SequentialBlock
        /\ Returned(c) =>
              calls[c].result.value =
                  PrependThemeBlock(formatLessLoader(calls[c].loadInfo).options.ad,
                                    calls[c].content, SequentialBlock)

\* two calls for different contents returned, their extractions having
\* completed in opposite orders
C10_Witness ==
    /\ Returned(1) /\ Returned(2)
    /\ calls[1].first = "dark" /\ calls[2].first = "light"
    /\ calls[1].content # calls[2].content
    /\ calls[1].vars # <<>>
    /\ calls[1].vars = calls[2].vars
    /\ calls[1].result # calls[2].result

====
